---- MODULE Spec2Model ----
(***************************************************************************)
(* Model of the TodoApp component (src/components/TodoApp.tsx).            *)
(*                                                                         *)
(* State: the three useState cells (todos, input, filter), the browser's   *)
(* localStorage, the setTodos updates React has queued but not yet         *)
(* rendered, the effects of the last commit that have not yet run, and the *)
(* wall clock read by Date.now().  Strings are sequences of one-character  *)
(* strings, so that trim(), JSON.stringify and JSON.parse are computed     *)
(* character by character.                                                 *)
(*                                                                         *)
(* Scheduling: React runs the effects of a commit in declaration order,    *)
(* re-renders when an update is queued, and (for click/submit events)      *)
(* flushes render and effects before the next event is dispatched; event   *)
(* handlers are therefore enabled only when nothing is pending.  Each mount *)
(* runs its two effects once, as a production build does; the page is      *)
(* reloaded only between events.  An exception thrown by an effect ends    *)
(* the commit's remaining effects and unmounts the component (crashed).    *)
(*                                                                         *)
(* mode is how React runs the component, fixed for a run:                  *)
(*   "production"  as above (specification Spec);                          *)
(*   "strict"      <StrictMode> in a development build: the effects of the *)
(*                 mount commit are run a second time on the same instance *)
(*                 before the re-render (specification SpecStrict);        *)
(*   "batched"     handlers may be called again before the re-render, as   *)
(*                 inside one batch of updates; each call sees the todos   *)
(*                 and input of the last render (specification             *)
(*                 SpecBatched).                                           *)
(*                                                                         *)
(* History variables, read by the properties only: last (the last handler  *)
(* called, its argument and the TaskList it started from), last2 (set when *)
(* the last two calls were toggleComplete on one id), writes (setItem      *)
(* calls since the last handler call or mount), adds (the non-blank texts  *)
(* added since the TaskList was last empty, while only adds happened),     *)
(* boot (localStorage as the current instance found it when it mounted,    *)
(* kept until the first handler call).                                     *)
(***************************************************************************)
EXTENDS Integers, Sequences, FiniteSets, TLC

VARIABLES todos, input, filter, localStorage, queue, effects, crashed, now,
          last, last2, writes, adds, boot, mode

vars == <<todos, input, filter, localStorage, queue, effects, crashed, now,
          last, last2, writes, adds, boot, mode>>

(***************************************************************************)
(* Bounds                                                                  *)
(***************************************************************************)
MaxTodos == 2
MaxTicks == 1

\* handler calls between two renders ("batched" only)
MaxBatch == 2

\* first value of Date.now() in a run; ids stored by earlier sessions are below it
ClockStart == 9

\* last value of Date.now() in a run
MaxClock == ClockStart + MaxTicks

(***************************************************************************)
(* Strings                                                                 *)
(***************************************************************************)
QUOTE == "\""
BSLASH == "\\"
TAB == "\t"

\* the texts a user types into #todo-input
Inputs ==
  { <<>>, <<" ", TAB>>, <<" ", "b">>, <<QUOTE, BSLASH>> }

\* the ids a click handler may be called with
Ids == (ClockStart - 1) .. MaxClock

IsWhitespace(c) == c \in {" ", TAB, "\n", "\r"}

RECURSIVE TrimStart(_)
TrimStart(s) ==
  IF s # <<>> /\ IsWhitespace(Head(s)) THEN TrimStart(Tail(s)) ELSE s

RECURSIVE TrimEnd(_)
TrimEnd(s) ==
  IF s # <<>> /\ IsWhitespace(s[Len(s)])
    THEN TrimEnd(SubSeq(s, 1, Len(s) - 1))
    ELSE s

\* variant: the test input === '' without trim()
trim_Absent(s) == s

\* String.prototype.trim
trim(s) == TrimEnd(TrimStart(s))

(***************************************************************************)
(* JSON.stringify on Todo[]                                                *)
(***************************************************************************)
Digit(d) == CASE d = 0 -> "0" [] d = 1 -> "1" [] d = 2 -> "2" [] d = 3 -> "3"
              [] d = 4 -> "4" [] d = 5 -> "5" [] d = 6 -> "6" [] d = 7 -> "7"
              [] d = 8 -> "8" [] d = 9 -> "9"

RECURSIVE NumberToChars(_)
NumberToChars(n) ==
  IF n < 10 THEN <<Digit(n)>>
            ELSE NumberToChars(n \div 10) \o <<Digit(n % 10)>>

\* variant: no escaping of quote and backslash
QuoteChar_Raw(c) == <<c>>

QuoteChar(c) ==
  CASE c = QUOTE  -> <<BSLASH, QUOTE>>
    [] c = BSLASH -> <<BSLASH, BSLASH>>
    [] c = TAB    -> <<BSLASH, "t">>
    [] OTHER      -> <<c>>

RECURSIVE QuoteChars(_)
QuoteChars(s) ==
  IF s = <<>> THEN <<>> ELSE QuoteChar(Head(s)) \o QuoteChars(Tail(s))

StringToChars(s) == <<QUOTE>> \o QuoteChars(s) \o <<QUOTE>>

BooleanToChars(b) ==
  IF b THEN <<"t", "r", "u", "e">> ELSE <<"f", "a", "l", "s", "e">>

KeyId == <<QUOTE, "i", "d", QUOTE, ":">>
KeyText == <<QUOTE, "t", "e", "x", "t", QUOTE, ":">>
KeyCompleted == <<QUOTE, "c", "o", "m", "p", "l", "e", "t", "e", "d", QUOTE, ":">>

\* properties are written in creation order: id, text, completed
TodoToChars(t) ==
  <<"{">> \o KeyId \o NumberToChars(t.id) \o <<",">>
          \o KeyText \o StringToChars(t.text) \o <<",">>
          \o KeyCompleted \o BooleanToChars(t.completed) \o <<"}">>

RECURSIVE JoinTodos(_)
JoinTodos(l) ==
  IF l = <<>> THEN <<>>
  ELSE IF Len(l) = 1 THEN TodoToChars(l[1])
  ELSE TodoToChars(Head(l)) \o <<",">> \o JoinTodos(Tail(l))

JSONstringify(l) == <<"[">> \o JoinTodos(l) \o <<"]">>

(***************************************************************************)
(* JSON.parse on the texts above: a recursive-descent reader.  Every       *)
(* reader returns [ok, val, next]; ok = FALSE is the SyntaxError.          *)
(***************************************************************************)
Fail == [ok |-> FALSE, val |-> <<>>, next |-> 0]

StartsWith(s, i, w) ==
  /\ i + Len(w) - 1 <= Len(s)
  /\ SubSeq(s, i, i + Len(w) - 1) = w

DigitValue(c) ==
  CASE c = "0" -> 0 [] c = "1" -> 1 [] c = "2" -> 2 [] c = "3" -> 3
    [] c = "4" -> 4 [] c = "5" -> 5 [] c = "6" -> 6 [] c = "7" -> 7
    [] c = "8" -> 8 [] c = "9" -> 9 [] OTHER -> -1

RECURSIVE ReadDigits(_, _, _)
ReadDigits(s, i, acc) ==
  IF i <= Len(s) /\ DigitValue(s[i]) >= 0
    THEN ReadDigits(s, i + 1, acc * 10 + DigitValue(s[i]))
    ELSE [ok |-> TRUE, val |-> acc, next |-> i]

\* a JSON number: digits, no leading zero
ReadNumber(s, i) ==
  IF i > Len(s) \/ DigitValue(s[i]) < 0 THEN Fail
  ELSE IF s[i] = "0" THEN
    IF i + 1 <= Len(s) /\ DigitValue(s[i + 1]) >= 0
      THEN Fail
      ELSE [ok |-> TRUE, val |-> 0, next |-> i + 1]
  ELSE ReadDigits(s, i, 0)

RECURSIVE ReadStringBody(_, _, _)
ReadStringBody(s, i, acc) ==
  IF i > Len(s) THEN Fail
  ELSE IF s[i] = QUOTE THEN [ok |-> TRUE, val |-> acc, next |-> i + 1]
  ELSE IF s[i] = BSLASH THEN
    IF i + 1 > Len(s) THEN Fail
    ELSE IF s[i + 1] = QUOTE THEN ReadStringBody(s, i + 2, Append(acc, QUOTE))
    ELSE IF s[i + 1] = BSLASH THEN ReadStringBody(s, i + 2, Append(acc, BSLASH))
    ELSE IF s[i + 1] = "t" THEN ReadStringBody(s, i + 2, Append(acc, TAB))
    ELSE Fail
  ELSE IF s[i] = TAB THEN Fail
  ELSE ReadStringBody(s, i + 1, Append(acc, s[i]))

ReadString(s, i) ==
  IF i <= Len(s) /\ s[i] = QUOTE THEN ReadStringBody(s, i + 1, <<>>) ELSE Fail

ReadBoolean(s, i) ==
  IF StartsWith(s, i, BooleanToChars(TRUE))
    THEN [ok |-> TRUE, val |-> TRUE, next |-> i + 4]
  ELSE IF StartsWith(s, i, BooleanToChars(FALSE))
    THEN [ok |-> TRUE, val |-> FALSE, next |-> i + 5]
  ELSE Fail

ReadTodo(s, i) ==
  IF ~StartsWith(s, i, <<"{">> \o KeyId) THEN Fail
  ELSE LET n == ReadNumber(s, i + 1 + Len(KeyId)) IN
    IF ~n.ok \/ ~StartsWith(s, n.next, <<",">> \o KeyText) THEN Fail
    ELSE LET t == ReadString(s, n.next + 1 + Len(KeyText)) IN
      IF ~t.ok \/ ~StartsWith(s, t.next, <<",">> \o KeyCompleted) THEN Fail
      ELSE LET c == ReadBoolean(s, t.next + 1 + Len(KeyCompleted)) IN
        IF ~c.ok \/ ~StartsWith(s, c.next, <<"}">>) THEN Fail
        ELSE [ok |-> TRUE,
              val |-> [id |-> n.val, text |-> t.val, completed |-> c.val],
              next |-> c.next + 1]

RECURSIVE ReadTodos(_, _, _)
ReadTodos(s, i, acc) ==
  LET t == ReadTodo(s, i) IN
    IF ~t.ok THEN Fail
    ELSE IF StartsWith(s, t.next, <<",">>)
      THEN ReadTodos(s, t.next + 1, Append(acc, t.val))
    ELSE IF StartsWith(s, t.next, <<"]">>)
      THEN [ok |-> TRUE, val |-> Append(acc, t.val), next |-> t.next + 1]
    ELSE Fail

JSONparse(s) ==
  IF ~StartsWith(s, 1, <<"[">>) THEN Fail
  ELSE LET r == IF StartsWith(s, 2, <<"]">>)
                  THEN [ok |-> TRUE, val |-> <<>>, next |-> 3]
                  ELSE ReadTodos(s, 2, <<>>)
       IN IF r.ok /\ r.next = Len(s) + 1 THEN r ELSE Fail

(***************************************************************************)
(* localStorage: a function from the keys that are set to their strings    *)
(***************************************************************************)
NoStorage == [k \in {} |-> <<>>]

HasItem(st, key) == key \in DOMAIN st

\* Storage.setItem
setItem(st, key, value) ==
  [k \in DOMAIN st \cup {key} |-> IF k = key THEN value ELSE st[k]]

\* what a previous session, or another program of the origin, left under 'todos'
NotValidJson ==
  <<"n", "o", "t", " ", "v", "a", "l", "i", "d", " ", "j", "s", "o", "n">>

StoredLists ==
  { <<>>,
    <<[id |-> ClockStart - 1, text |-> <<QUOTE, BSLASH>>, completed |-> TRUE]>> }

InitialStorages ==
  {NoStorage}
    \cup {setItem(NoStorage, "todos", v) :
            v \in {<<>>, NotValidJson} \cup {JSONstringify(l) : l \in StoredLists}}

(***************************************************************************)
(* The component                                                           *)
(***************************************************************************)
Filters == {"all", "pending", "completed"}

\* variant: the save effect declared before the load effect
MountEffects_SaveFirst == <<"save", "load">>

\* the effects of the mount commit, in declaration order
MountEffects == <<"load", "save">>

Modes == {"production", "strict", "batched"}

\* <StrictMode> runs the mount effects again (there is no cleanup to run between)
EffectsOnMount(m) ==
  IF m = "strict" THEN MountEffects \o MountEffects ELSE MountEffects

NoOp == [op |-> "none", id |-> 0, text |-> <<>>, before |-> <<>>,
         built |-> FALSE, want |-> <<>>]
NoPair == [on |-> FALSE, start |-> <<>>]
NoAdds == [valid |-> FALSE, texts |-> <<>>]
FromEmpty == [valid |-> TRUE, texts |-> <<>>]

InitIn(m) ==
  /\ mode = m
  /\ todos = <<>>
  /\ input = <<>>
  /\ filter = "all"
  /\ localStorage \in InitialStorages
  /\ boot = localStorage
  /\ queue = <<>>
  /\ effects = EffectsOnMount(m)
  /\ crashed = FALSE
  /\ now = ClockStart
  /\ last = NoOp
  /\ last2 = NoPair
  /\ writes = 0
  /\ adds = FromEmpty

Init == InitIn("production")
InitStrict == InitIn("strict")
InitBatched == InitIn("batched")

\* nothing pending: the next thing to run is an event handler
Idle == ~crashed /\ effects = <<>> /\ queue = <<>>

\* an event handler may be called: nothing pending, or (batched) only updates
Ready ==
  /\ ~crashed
  /\ effects = <<>>
  /\ queue = <<>> \/ (mode = "batched" /\ Len(queue) < MaxBatch)

\* a value handed to setTodos; fresh = it is not the array the state already
\* holds; clear = setInput('') was called with it
Update(l, isFresh) == [val |-> l, fresh |-> isFresh, clear |-> FALSE]

\* the list the previous call produced: the last one queued, or the rendered one
Produced == IF queue = <<>> THEN todos ELSE queue[Len(queue)].val

\* useEffect(() => { getItem; if (storedTodos) setTodos(JSON.parse(storedTodos)) }, [])
LoadEffect ==
  /\ ~crashed
  /\ effects # <<>>
  /\ Head(effects) = "load"
  /\ IF HasItem(localStorage, "todos") /\ localStorage["todos"] # <<>>
       THEN LET r == JSONparse(localStorage["todos"]) IN
              IF r.ok
                THEN /\ queue' = Append(queue, Update(r.val, TRUE))
                     /\ effects' = Tail(effects)
                     /\ crashed' = FALSE
                     /\ adds' = IF r.val = <<>> THEN adds ELSE NoAdds
                ELSE \* the SyntaxError leaves the effect; React drops the tree
                     /\ queue' = <<>>
                     /\ effects' = <<>>
                     /\ crashed' = TRUE
                     /\ adds' = NoAdds
       ELSE /\ effects' = Tail(effects)
            /\ UNCHANGED <<queue, crashed, adds>>
  /\ UNCHANGED <<todos, input, filter, localStorage, now, last, last2, writes,
                 boot, mode>>

\* useEffect(() => { setItem('todos', JSON.stringify(todos)) }, [todos])
SaveEffect ==
  /\ ~crashed
  /\ effects # <<>>
  /\ Head(effects) = "save"
  /\ localStorage' = setItem(localStorage, "todos", JSONstringify(todos))
  /\ writes' = writes + 1
  /\ effects' = Tail(effects)
  /\ UNCHANGED <<todos, input, filter, queue, crashed, now, last, last2, adds,
                 boot, mode>>

\* variant: the save effect declared with the dependency list []
RenderEffects_NoDeps(changed) == <<>>

\* the effects of a re-render: the save effect runs when its dependency
\* todos is not Object.is-equal to the one of the previous render
RenderEffects(changed) == IF changed THEN <<"save">> ELSE <<>>

\* re-render: the queued updates are applied in order, the last one stands
Render ==
  /\ ~crashed
  /\ effects = <<>>
  /\ queue # <<>>
  /\ todos' = queue[Len(queue)].val
  /\ effects' = RenderEffects(queue[Len(queue)].fresh)
  /\ input' = IF \E i \in 1..Len(queue) : queue[i].clear THEN <<>> ELSE input
  /\ queue' = <<>>
  /\ UNCHANGED <<filter, localStorage, crashed, now, last, last2, writes,
                 adds, boot, mode>>

\* Date.now() advances
Tick ==
  /\ Idle
  /\ now < MaxClock
  /\ now' = now + 1
  /\ UNCHANGED <<todos, input, filter, localStorage, queue, effects, crashed,
                 last, last2, writes, adds, boot, mode>>

\* onChange={(e) => setInput(e.target.value)}
SetInput(text) ==
  /\ Idle
  /\ input' = text
  /\ UNCHANGED <<todos, filter, localStorage, queue, effects, crashed, now,
                 last, last2, writes, adds, boot, mode>>

\* variant: the save effect declared with the dependency list [todos, filter]
SetFilter_Saves(f) ==
  /\ Idle
  /\ filter' = f
  /\ effects' = IF f # filter THEN <<"save">> ELSE <<>>
  /\ UNCHANGED <<todos, input, localStorage, queue, crashed, now,
                 last, last2, writes, adds, boot, mode>>

\* onClick={() => setFilter(...)}
SetFilter(f) ==
  /\ Idle
  /\ filter' = f
  /\ UNCHANGED <<todos, input, localStorage, queue, effects, crashed, now,
                 last, last2, writes, adds, boot, mode>>

\* variant: text: input.trim()
newTodo_Trimmed == [id |-> now, text |-> trim(input), completed |-> FALSE]

newTodo == [id |-> now, text |-> input, completed |-> FALSE]

AddTodo ==
  /\ Ready
  /\ last' = [op |-> "add", id |-> 0, text |-> input, before |-> todos,
              built |-> adds.valid,
              want |-> IF trim(input) = <<>> THEN Produced
                                             ELSE Append(Produced, newTodo)]
  /\ last2' = NoPair
  /\ writes' = 0
  /\ boot' = NoStorage
  /\ IF trim(input) = <<>>
       THEN UNCHANGED <<todos, input, filter, localStorage, queue, effects,
                        crashed, now, adds, mode>>
       ELSE /\ Len(todos) < MaxTodos
            /\ adds' = IF adds.valid
                         THEN [valid |-> TRUE, texts |-> Append(adds.texts, input)]
                         ELSE NoAdds
            /\ queue' = Append(queue, [Update(Append(todos, newTodo), TRUE)
                                         EXCEPT !.clear = TRUE])
            /\ UNCHANGED <<todos, input, filter, localStorage, effects, crashed,
                           now, mode>>

\* variant: the map without the test on the id
ToggleMap_All(l, id) ==
  [i \in 1..Len(l) |->
     [id |-> l[i].id, text |-> l[i].text, completed |-> ~l[i].completed]]

\* variant: completed: true instead of !todo.completed
ToggleMap_SetTrue(l, id) ==
  [i \in 1..Len(l) |->
     IF l[i].id = id
       THEN [id |-> l[i].id, text |-> l[i].text, completed |-> TRUE]
       ELSE l[i]]

\* todos.map(todo => todo.id === id ? { ...todo, completed: !todo.completed } : todo)
ToggleMap(l, id) ==
  [i \in 1..Len(l) |->
     IF l[i].id = id
       THEN [id |-> l[i].id, text |-> l[i].text, completed |-> ~l[i].completed]
       ELSE l[i]]

ToggleComplete(id) ==
  /\ Ready
  /\ last' = [op |-> "toggle", id |-> id, text |-> <<>>, before |-> todos,
              built |-> adds.valid, want |-> ToggleMap(Produced, id)]
  /\ last2' = IF last.op = "toggle" /\ last.id = id
                THEN [on |-> TRUE, start |-> last.before]
                ELSE NoPair
  /\ writes' = 0
  /\ queue' = Append(queue, Update(ToggleMap(todos, id), TRUE))
  /\ adds' = NoAdds
  /\ boot' = NoStorage
  /\ UNCHANGED <<todos, input, filter, localStorage, effects, crashed, now,
                 mode>>

\* todos.filter(todo => todo.id !== id)
DeleteFilter(l, id) == SelectSeq(l, LAMBDA t : t.id # id)

DeleteTodo(id) ==
  /\ Ready
  /\ last' = [op |-> "delete", id |-> id, text |-> <<>>, before |-> todos,
              built |-> adds.valid, want |-> DeleteFilter(Produced, id)]
  /\ last2' = NoPair
  /\ writes' = 0
  /\ queue' = Append(queue, Update(DeleteFilter(todos, id), TRUE))
  /\ adds' = NoAdds
  /\ boot' = NoStorage
  /\ UNCHANGED <<todos, input, filter, localStorage, effects, crashed, now,
                 mode>>

\* variant: the predicate without the negation
PendingFilter_Inverted(l) == SelectSeq(l, LAMBDA t : t.completed)

\* todos.filter(todo => !todo.completed)
PendingFilter(l) == SelectSeq(l, LAMBDA t : ~t.completed)

ClearCompleted ==
  /\ Ready
  /\ last' = [op |-> "clearCompleted", id |-> 0, text |-> <<>>, before |-> todos,
              built |-> adds.valid, want |-> PendingFilter(Produced)]
  /\ last2' = NoPair
  /\ writes' = 0
  /\ queue' = Append(queue, Update(PendingFilter(todos), TRUE))
  /\ adds' = NoAdds
  /\ boot' = NoStorage
  /\ UNCHANGED <<todos, input, filter, localStorage, effects, crashed, now,
                 mode>>

\* variant: clearAll wired to the clear-completed filter
ClearAll_KeepsPending ==
  /\ Ready
  /\ last' = [op |-> "clearAll", id |-> 0, text |-> <<>>, before |-> todos,
              built |-> adds.valid, want |-> <<>>]
  /\ last2' = NoPair
  /\ writes' = 0
  /\ queue' = Append(queue, Update(PendingFilter(todos), TRUE))
  /\ adds' = FromEmpty
  /\ boot' = NoStorage
  /\ UNCHANGED <<todos, input, filter, localStorage, effects, crashed, now,
                 mode>>

ClearAll ==
  /\ Ready
  /\ last' = [op |-> "clearAll", id |-> 0, text |-> <<>>, before |-> todos,
              built |-> adds.valid, want |-> <<>>]
  /\ last2' = NoPair
  /\ writes' = 0
  /\ queue' = Append(queue, Update(<<>>, TRUE))
  /\ adds' = FromEmpty
  /\ boot' = NoStorage
  /\ UNCHANGED <<todos, input, filter, localStorage, effects, crashed, now,
                 mode>>

\* variant: the two tests exchanged
filteredTodos_Swapped(l, f) ==
  SelectSeq(l, LAMBDA todo : IF f = "pending" THEN todo.completed
                             ELSE IF f = "completed" THEN ~todo.completed
                             ELSE TRUE)

\* todos.filter(todo => { pending: !completed; completed: completed; else true })
filteredTodos(l, f) ==
  SelectSeq(l, LAMBDA todo : IF f = "pending" THEN ~todo.completed
                             ELSE IF f = "completed" THEN todo.completed
                             ELSE TRUE)

\* the page is left and opened again: a new component instance, same storage
Reload ==
  /\ Idle
  /\ todos' = <<>>
  /\ input' = <<>>
  /\ filter' = "all"
  /\ queue' = <<>>
  /\ effects' = EffectsOnMount(mode)
  /\ last' = [op |-> "reload", id |-> 0, text |-> <<>>, before |-> todos,
              built |-> FALSE, want |-> todos]
  /\ last2' = NoPair
  /\ writes' = 0
  /\ adds' = FromEmpty
  /\ boot' = localStorage
  /\ UNCHANGED <<localStorage, crashed, now, mode>>

Next ==
  \/ LoadEffect
  \/ SaveEffect
  \/ Render
  \/ Tick
  \/ \E text \in Inputs : SetInput(text)
  \/ \E f \in Filters : SetFilter(f)
  \/ AddTodo
  \/ \E id \in Ids : ToggleComplete(id)
  \/ \E id \in Ids : DeleteTodo(id)
  \/ ClearCompleted
  \/ ClearAll
  \/ Reload

Spec == Init /\ [][Next]_vars

\* the same component under <StrictMode> in a development build
SpecStrict == InitStrict /\ [][Next]_vars

\* the same component with handlers called again before the re-render
SpecBatched == InitBatched /\ [][Next]_vars

TypeOK ==
  /\ mode \in Modes
  /\ filter \in Filters
  /\ input \in Inputs
  /\ crashed \in BOOLEAN
  /\ now \in ClockStart..MaxClock
  /\ Len(todos) <= MaxTodos
  /\ \A i \in 1..Len(todos) : todos[i].completed \in BOOLEAN

(***************************************************************************)
(* Properties                                                              *)
(***************************************************************************)
MutatingOps == {"add", "toggle", "delete", "clearCompleted", "clearAll"}

\* a text that is empty or whitespace only
IsBlank(s) == \A i \in 1..Len(s) : IsWhitespace(s[i])

\* the positions of l whose Task has the id
Matches(l, id) == {i \in 1..Len(l) : l[i].id = id}

\* l without its position i
Without(l, i) == SubSeq(l, 1, i - 1) \o SubSeq(l, i + 1, Len(l))

\* C1: a new instance mounted on the storage a settled instance left behind
\* ends its mount, without an error, with the TaskList that instance had:
\* same ids, texts, completed flags, same order.
C1_RoundTrip ==
  (last.op = "reload" /\ effects = <<>> /\ queue = <<>>)
    => (~crashed /\ todos = last.before)

C1_Witness ==
  /\ Idle
  /\ last.op = "reload"
  /\ Len(todos) = 2
  /\ todos[1].completed
  /\ \E i \in 1..2 : todos[i].text = <<QUOTE, BSLASH>>
  /\ \E i \in 1..2 : todos[i].id >= 10

\* C2: when the value under 'todos' is present and does not parse, the load
\* ends with an empty TaskList and the component still running.
C2_MalformedLoadFallsBack ==
  (/\ HasItem(localStorage, "todos")
   /\ localStorage["todos"] # <<>>
   /\ ~JSONparse(localStorage["todos"]).ok
   /\ effects = <<>>)
    => (~crashed /\ todos = <<>>)

\* C3: in every state the ids of the Tasks of TaskList are pairwise distinct.
C3_UniqueIds ==
  \A i, j \in 1..Len(todos) : i # j => todos[i].id # todos[j].id

\* C4: once a mutating operation (a non-blank add, toggle, delete,
\* clearCompleted, clearAll; matching id or not) has been carried out, exactly
\* one write to 'todos' has happened since it was called and the stored value
\* is the serialization of the current TaskList.
C4_OneWritePerMutation ==
  /\ (last.op \in MutatingOps /\ ~(last.op = "add" /\ IsBlank(last.text)))
       => /\ writes <= 1
          /\ Idle => /\ writes = 1
                     /\ HasItem(localStorage, "todos")
                     /\ localStorage["todos"] = JSONstringify(todos)

C4_Witness ==
  /\ Idle
  /\ last.op = "toggle"
  /\ todos # <<>>
  /\ Matches(todos, last.id) = {}
  /\ writes = 1
  /\ localStorage["todos"] = JSONstringify(todos)

\* C5: an add with empty or whitespace-only text changes nothing: the
\* TaskList is as before, nothing is queued or written, no error state.
C5_BlankAddIgnored ==
  (last.op = "add" /\ IsBlank(last.text))
    => /\ todos = last.before
       /\ queue = <<>>
       /\ effects = <<>>
       /\ writes = 0
       /\ ~crashed

C5_Witness ==
  /\ last.op = "add"
  /\ last.text = <<" ", TAB>>
  /\ todos # <<>>
  /\ writes = 0

\* C6: a non-blank add appends one Task with the given text and completed =
\* FALSE after the earlier Tasks, which stay as they were; and a list built
\* from empty by adds alone has one Task per non-blank call, the texts in
\* call order.
C6_AddAppends ==
  /\ (Idle /\ last.op = "add" /\ ~IsBlank(last.text))
       => /\ Len(todos) = Len(last.before) + 1
          /\ SubSeq(todos, 1, Len(last.before)) = last.before
          /\ todos[Len(todos)].text = last.text
          /\ todos[Len(todos)].completed = FALSE
  /\ (Idle /\ adds.valid)
       => /\ Len(todos) = Len(adds.texts)
          /\ \A i \in 1..Len(todos) : todos[i].text = adds.texts[i]

C6_Witness ==
  /\ Idle
  /\ last.op = "add"
  /\ adds.valid
  /\ adds.texts = << <<" ", "b">>, <<QUOTE, BSLASH>> >>
  /\ Len(todos) = 2

\* C7: toggleComplete(id) flips completed on exactly one Task, the one with
\* the id, and leaves the others, the length and the order as they were;
\* with no Task of that id the TaskList is as before.
C7_ToggleFlipsExactlyOne ==
  (Idle /\ last.op = "toggle")
    => LET b == last.before IN
         /\ Len(todos) = Len(b)
         /\ IF Matches(b, last.id) = {}
              THEN todos = b
              ELSE \E i \in Matches(b, last.id) :
                     /\ todos[i] = [b[i] EXCEPT !.completed = ~b[i].completed]
                     /\ \A j \in 1..Len(b) : j # i => todos[j] = b[j]

\* C8: delete(id) removes the Task with the id and nothing else, the rest
\* unchanged and in order; with no Task of that id the TaskList is as before.
C8_DeleteRemovesOne ==
  (Idle /\ last.op = "delete")
    => LET b == last.before IN
         IF Matches(b, last.id) = {}
           THEN todos = b
           ELSE \E i \in Matches(b, last.id) : todos = Without(b, i)

\* C9: two toggleComplete calls in succession on the same id leave the
\* TaskList, and so the completed value of that Task, as before the first.
C9_ToggleTwiceRestores ==
  (Idle /\ last2.on) => todos = last2.start

C9_Witness ==
  /\ Idle
  /\ last2.on
  /\ Matches(todos, last.id) # {}
  /\ last.before # todos

\* C10: clearCompleted leaves exactly the Tasks that had completed = FALSE,
\* unchanged and in their order.
C10_ClearCompletedKeepsPending ==
  (Idle /\ last.op = "clearCompleted")
    => /\ todos = SelectSeq(last.before, LAMBDA t : t.completed = FALSE)
       /\ \A i \in 1..Len(todos) : ~todos[i].completed

C10_Witness ==
  /\ Idle
  /\ last.op = "clearCompleted"
  /\ Len(last.before) = 2
  /\ Len(todos) = 1
  /\ last.before[1].completed
  /\ todos[1] = last.before[2]

\* a is b with some positions left out
RECURSIVE IsSubseq(_, _)
IsSubseq(a, b) ==
  \/ a = <<>>
  \/ /\ b # <<>>
     /\ IF Head(a) = Head(b) THEN IsSubseq(Tail(a), Tail(b))
                             ELSE IsSubseq(a, Tail(b))

\* C11: once clearAll has been carried out the TaskList is empty, whatever
\* it was, and the value stored under 'todos' is the serialization of the
\* empty list.
C11_ClearAllEmpties ==
  (Idle /\ last.op = "clearAll")
    => /\ todos = <<>>
       /\ HasItem(localStorage, "todos")
       /\ localStorage["todos"] = <<"[", "]">>

C11_Witness ==
  /\ Idle
  /\ last.op = "clearAll"
  /\ Len(last.before) = 2
  /\ \E i \in 1..2 : ~last.before[i].completed
  /\ localStorage["todos"] = <<"[", "]">>

\* C12: in every state the view under 'all' is the TaskList, the views under
\* 'pending' and 'completed' are subsequences of it holding only Tasks with
\* completed = FALSE, respectively TRUE, and together they hold every Task
\* once; the list on screen is the view of the current Filter.
C12_VisibleTasksProjection ==
  LET P == filteredTodos(todos, "pending")
      C == filteredTodos(todos, "completed")
  IN /\ filteredTodos(todos, "all") = todos
     /\ IsSubseq(P, todos)
     /\ IsSubseq(C, todos)
     /\ \A i \in 1..Len(P) : ~P[i].completed
     /\ \A i \in 1..Len(C) : C[i].completed
     /\ Len(P) + Len(C) = Len(todos)
     /\ filteredTodos(todos, filter) \in {todos, P, C}
     /\ filter = "pending" => filteredTodos(todos, filter) = P
     /\ filter = "completed" => filteredTodos(todos, filter) = C

C12_Witness ==
  /\ Idle
  /\ Len(todos) = 2
  /\ todos[1].completed
  /\ ~todos[2].completed
  /\ filter = "pending"
  /\ filteredTodos(todos, filter) = <<todos[2]>>

\* the texts of a list, in order
TextsOf(l) == [i \in 1..Len(l) |-> l[i].text]

\* the mount of the current instance is over and no handler has been called
MountSettled ==
  last.op \in {"none", "reload"} /\ effects = <<>> /\ queue = <<>>

\* C13: after two adds from an empty store and toggleComplete on the id of
\* the first Task, the pending view holds the second text alone and the
\* completed view the first text alone.
C13_ToggleMovesOneTask ==
  (/\ Idle
   /\ last.op = "toggle"
   /\ last.built
   /\ Len(last.before) = 2
   /\ last.id = last.before[1].id)
    => /\ TextsOf(filteredTodos(todos, "pending")) = <<last.before[2].text>>
       /\ TextsOf(filteredTodos(todos, "completed")) = <<last.before[1].text>>

\* C14: the Filter starts as 'all' and is always one of the three values; a
\* step that changes it (other than a new mount) leaves the TaskList, the
\* storage and the pending work as they were; and what is stored is the
\* serialization of the TaskList alone, whatever the Filter.
C14_SetFilterOnlyFilter ==
  /\ filter = "all"
  /\ [](filter \in Filters)
  /\ [][(filter' # filter /\ effects' # EffectsOnMount(mode))
          => /\ todos' = todos
             /\ localStorage' = localStorage
             /\ queue' = queue
             /\ effects' = effects
             /\ writes' = writes]_vars
  /\ []((Idle /\ writes >= 1) => localStorage["todos"] = JSONstringify(todos))

C14_Witness ==
  /\ Idle
  /\ filter = "completed"
  /\ Len(todos) = 2
  /\ last.op = "add"
  /\ writes = 1
  /\ localStorage["todos"] = JSONstringify(todos)

\* C15: when a mount is over, with nothing stored under 'todos' the TaskList
\* is empty, and with a parseable value stored it is the parsed list, no
\* more and no less; a handler is called only after that.
C15_LoadAtStartup ==
  /\ []((MountSettled /\ ~HasItem(boot, "todos"))
          => (~crashed /\ todos = <<>>))
  /\ []((MountSettled /\ HasItem(boot, "todos")
           /\ boot["todos"] # <<>> /\ JSONparse(boot["todos"]).ok)
          => (~crashed /\ todos = JSONparse(boot["todos"]).val))
  /\ [][(last' # last /\ last'.op \in MutatingOps)
          => (effects = <<>> /\ queue = <<>> /\ todos' = todos)]_vars

C15_Witness ==
  /\ MountSettled
  /\ last.op = "none"
  /\ HasItem(boot, "todos")
  /\ Len(todos) = 1
  /\ todos[1].text = <<QUOTE, BSLASH>>
  /\ todos[1].completed

\* C16: in a list built from empty by adds, the ids are strictly increasing
\* in list order.
C16_IdsIncrease ==
  (Idle /\ adds.valid)
    => \A i, j \in 1..Len(todos) : i < j => todos[i].id < todos[j].id

\* the instance mounted on a parseable, non-empty stored list
BootList == JSONparse(boot["todos"]).val

BootedOnList ==
  /\ last.op \in {"none", "reload"}
  /\ HasItem(boot, "todos")
  /\ boot["todos"] # <<>>
  /\ JSONparse(boot["todos"]).ok
  /\ BootList # <<>>

\* C17: from the mount on a parseable non-empty list L until the first
\* handler call, the value stored under 'todos' is the serialization of L.
C17_StartupKeepsStorage ==
  BootedOnList
    => /\ HasItem(localStorage, "todos")
       /\ localStorage["todos"] = JSONstringify(BootList)

\* C18: a mount on a parseable list L, its effects run once or twice on the
\* instance, ends with the TaskList and the stored value both equal to L.
C18_RestartIdempotent ==
  (MountSettled /\ HasItem(boot, "todos") /\ boot["todos"] # <<>>
     /\ JSONparse(boot["todos"]).ok)
    => /\ ~crashed
       /\ todos = BootList
       /\ localStorage["todos"] = JSONstringify(BootList)

\* C19: once the calls made so far have been rendered, the TaskList is the
\* result of applying each call to the list the call before it produced.
C19_NoLostUpdate ==
  (Idle /\ last.op \in MutatingOps) => todos = last.want

\* C20: a call leaves every Task that stays with its id and text and in its
\* place among those that stay; completed changes only by toggleComplete,
\* and only on Tasks with the id it was called with.
C20_TasksImmutable ==
  (Idle /\ last.op \in MutatingOps)
    => LET b == last.before IN
         CASE last.op = "toggle" ->
                /\ Len(todos) = Len(b)
                /\ \A i \in 1..Len(b) :
                     /\ todos[i].id = b[i].id
                     /\ todos[i].text = b[i].text
                     /\ todos[i].completed # b[i].completed => b[i].id = last.id
           [] last.op = "add" ->
                /\ Len(todos) >= Len(b)
                /\ SubSeq(todos, 1, Len(b)) = b
           [] OTHER -> IsSubseq(todos, b)

C20_Witness ==
  /\ Idle
  /\ last.op = "toggle"
  /\ Len(todos) = 2
  /\ todos[1].completed # last.before[1].completed
  /\ todos[2] = last.before[2]
  /\ todos[2].completed

====
